---- MODULE Spec2Model ----
(***************************************************************************)
(* Pi-hole API, src/dns/list.rs and src/dns/delete_list.rs: the three      *)
(* domain lists (White, Black, Regex), each backed by one line-oriented    *)
(* text file, and the operations get / add / remove / try_remove on them.  *)
(*                                                                         *)
(* A file is modelled by its bytes: a sequence of one-character strings,   *)
(* LF being the line terminator that writeln! emits and that               *)
(* BufReader::lines() splits on.  An entry (a domain or a regex) is a      *)
(* sequence of characters as well, so that writing an entry and reading    *)
(* it back are two different computations.                                 *)
(***************************************************************************)
EXTENDS Integers, Sequences, FiniteSets, TLC

VARIABLES
    files,   \* PiholeFile -> [exists, data]: the bytes of each list file
    last,    \* the last call: its arguments, its result, its I/O, the files before it
    faulty,  \* a call of this run has met an I/O fault
    calls    \* request -> the call it is in: its arguments, its position, what it read

vars == <<files, last, faulty, calls>>

\* Total number of bytes the three list files may hold together.
MaxBytes == 4

\* Longest candidate string a caller passes to add / remove / try_remove.
MaxCand == 2

LF == "\n"

\* Characters of a host name label, and characters of a regular expression.
HostChars == {"a"}

RegexChars == {"a", "^"}

Chars == RegexChars \cup {LF}

\* enum List { White, Black, Regex }
List == {"White", "Black", "Regex"}

PiholeFiles == {"Whitelist", "Blacklist", "Regexlist"}

\* The regex list stored in the blacklist's file.
file_RegexInBlacklist(list) ==
    CASE list = "White" -> "Whitelist"
      [] list = "Black" -> "Blacklist"
      [] list = "Regex" -> "Blacklist"

\* List::file
file(list) ==
    CASE list = "White" -> "Whitelist"
      [] list = "Black" -> "Blacklist"
      [] list = "Regex" -> "Regexlist"

-----------------------------------------------------------------------------
(* Strings *)

SeqsUpTo(S, n) == UNION {[1..m -> S] : m \in 0..n}

\* What callers pass: host names (the empty string among them), a pattern
\* that is no host name, and strings that hold a line terminator.
Candidates ==
    SeqsUpTo(HostChars, MaxCand) \cup {<<"^">>, <<LF>>, <<"a", LF>>}

Range(s) == {s[i] : i \in 1..Len(s)}

\* Vec::contains
Contains(domains, domain) == \E i \in 1..Len(domains) : domains[i] = domain

Count(domains, domain) == Cardinality({i \in 1..Len(domains) : domains[i] = domain})

NoDuplicates(domains) ==
    \A i, j \in 1..Len(domains) : domains[i] = domains[j] => i = j

Prefix(s, n) == SubSeq(s, 1, n)

-----------------------------------------------------------------------------
(* Validator (dns::common) *)

\* A host name: at least one character, host name characters only.
is_valid_domain(domain) == Len(domain) >= 1 /\ Range(domain) \subseteq HostChars

\* A regular expression that compiles: one non-empty line of pattern text.
is_valid_regex(domain) == Len(domain) >= 1 /\ Range(domain) \subseteq RegexChars

\* List::accepts
accepts(list, domain) ==
    IF list = "Regex" THEN is_valid_regex(domain) ELSE is_valid_domain(domain)

-----------------------------------------------------------------------------
(* The file system and its faults *)

\* util::Error::from(io::Error): the store failure a `?` or e.into() returns.
StoreFailure == "IoError"

Missing == [exists |-> FALSE, data |-> <<>>]

FileOf(data) == [exists |-> TRUE, data |-> data]

\* What the environment does to the I/O of one call.  open_read: opening the
\* file for reading fails with an error other than NotFound.  bad_line: the
\* number of the line whose read returns Err (0: none).  open_write: opening
\* the file for writing fails.  cut: the number of bytes the device accepts
\* before the write fails (-1: the write does not fail).
NoFault == [open_read |-> FALSE, bad_line |-> 0, open_write |-> FALSE, cut |-> -1]

\* At most one fault per call.
Faults ==
    {NoFault}
    \cup {[NoFault EXCEPT !.open_read = TRUE]}
    \cup {[NoFault EXCEPT !.bad_line = n] : n \in 1..MaxBytes}
    \cup {[NoFault EXCEPT !.open_write = TRUE]}
    \cup {[NoFault EXCEPT !.cut = n] : n \in 0..MaxBytes}

RECURSIVE SplitFrom(_, _, _)
SplitFrom(data, i, cur) ==
    IF i > Len(data)
    THEN IF cur = <<>> THEN <<>> ELSE <<cur>>
    ELSE IF data[i] = LF
         THEN <<cur>> \o SplitFrom(data, i + 1, <<>>)
         ELSE SplitFrom(data, i + 1, Append(cur, data[i]))

\* BufReader::lines(): the lines of the file, terminators stripped; a last
\* line without terminator is a line, an empty remainder is not.  (Chars
\* holds no carriage return, so the "\r\n" case of lines() does not arise.)
lines(data) == SplitFrom(data, 1, <<>>)

\* filter_map(|line| line.ok()): a line whose read fails is dropped.
RECURSIVE OkLinesFrom(_, _, _)
OkLinesFrom(raw, i, bad) ==
    IF i > Len(raw) THEN <<>>
    ELSE (IF i = bad THEN <<>> ELSE <<raw[i]>>) \o OkLinesFrom(raw, i + 1, bad)

filter_map_ok(raw, bad) == OkLinesFrom(raw, 1, bad)

\* The filter on the length left out: empty lines are entries.
filter_non_empty_KeepsAll(ls) == ls

\* filter(|line| line.len() != 0)
filter_non_empty(ls) == SelectSeq(ls, LAMBDA l : Len(l) # 0)

\* write! in place of writeln!: the line terminator is left out.
writeln_NoTerminator(domain) == domain

\* writeln!(w, "{}", domain)
writeln(domain) == domain \o <<LF>>

TotalBytes(fs) ==
    Len(fs["Whitelist"].data) + Len(fs["Blacklist"].data) + Len(fs["Regexlist"].data)

-----------------------------------------------------------------------------
(* List operations.  Each is the outcome of one call on the files fs under  *)
(* the fault flt: the files after the call, the result returned, and the    *)
(* I/O the call performed, in order.                                        *)

\* A missing file is an error like any other.
get_MissingIsError(fs, list, flt) ==
    LET f == fs[file(list)] IN
    IF flt.open_read \/ ~f.exists
    THEN [result |-> StoreFailure, ret |-> <<>>, io |-> <<"open_read_err">>]
    ELSE LET raw == lines(f.data) IN
         [result |-> "Ok",
          ret    |-> filter_non_empty(filter_map_ok(raw, flt.bad_line)),
          io     |-> IF flt.bad_line \in 1..Len(raw)
                     THEN <<"open_read", "line_err">>
                     ELSE <<"open_read">>]

\* List::get, with Config::read_file
get(fs, list, flt) ==
    LET f == fs[file(list)] IN
    IF flt.open_read
    THEN [result |-> StoreFailure, ret |-> <<>>, io |-> <<"open_read_err">>]
    ELSE IF ~f.exists
    THEN \* If the file is not found, then the list is empty
         [result |-> "Ok", ret |-> <<>>, io |-> <<"open_read_notfound">>]
    ELSE LET raw == lines(f.data) IN
         [result |-> "Ok",
          ret    |-> filter_non_empty(filter_map_ok(raw, flt.bad_line)),
          io     |-> IF flt.bad_line \in 1..Len(raw)
                     THEN <<"open_read", "line_err">>
                     ELSE <<"open_read">>]

\* The file opened with append = false: it is truncated before the write.
append_line_Truncates(fs, list, domain, flt, io) ==
    LET f     == file(list)
        bytes == writeln(domain)
    IN  IF flt.open_write
        THEN [files |-> fs, result |-> StoreFailure, io |-> io \o <<"open_append_err">>]
        ELSE IF flt.cut \in 0..(Len(bytes) - 1)
        THEN [files  |-> [fs EXCEPT ![f] = FileOf(Prefix(bytes, flt.cut))],
              result |-> StoreFailure,
              io     |-> io \o <<"open_append", "write_err">>]
        ELSE [files  |-> [fs EXCEPT ![f] = FileOf(bytes)],
              result |-> "Ok",
              io     |-> io \o <<"open_append", "write">>]

\* config.write_file(file, true) and writeln!(file, "{}", domain): the file is
\* created if missing and the bytes go to its end, unbuffered; a write that
\* fails leaves the bytes the device accepted.
append_line(fs, list, domain, flt, io) ==
    LET f     == file(list)
        bytes == writeln(domain)
    IN  IF flt.open_write
        THEN [files |-> fs, result |-> StoreFailure, io |-> io \o <<"open_append_err">>]
        ELSE IF flt.cut \in 0..(Len(bytes) - 1)
        THEN [files  |-> [fs EXCEPT ![f] = FileOf(fs[f].data \o Prefix(bytes, flt.cut))],
              result |-> StoreFailure,
              io     |-> io \o <<"open_append", "write_err">>]
        ELSE [files  |-> [fs EXCEPT ![f] = FileOf(fs[f].data \o bytes)],
              result |-> "Ok",
              io     |-> io \o <<"open_append", "write">>]

\* add without the AlreadyExists check.
add_Unchecked(fs, list, domain, flt) ==
    IF ~accepts(list, domain)
    THEN [files |-> fs, result |-> "InvalidDomain", io |-> <<>>]
    ELSE LET g == get(fs, list, flt) IN
         IF g.result # "Ok"
         THEN [files |-> fs, result |-> g.result, io |-> g.io]
         ELSE append_line(fs, list, domain, flt, g.io)

\* add that reports a duplicate as success.
add_DuplicateIsOk(fs, list, domain, flt) ==
    IF ~accepts(list, domain)
    THEN [files |-> fs, result |-> "InvalidDomain", io |-> <<>>]
    ELSE LET g == get(fs, list, flt) IN
         IF g.result # "Ok"
         THEN [files |-> fs, result |-> g.result, io |-> g.io]
         ELSE IF Contains(g.ret, domain)
         THEN [files |-> fs, result |-> "Ok", io |-> g.io]
         ELSE append_line(fs, list, domain, flt, g.io)

\* List::add
add(fs, list, domain, flt) ==
    IF ~accepts(list, domain)
    THEN [files |-> fs, result |-> "InvalidDomain", io |-> <<>>]
    ELSE LET g == get(fs, list, flt) IN
         IF g.result # "Ok"
         THEN [files |-> fs, result |-> g.result, io |-> g.io]
         ELSE IF Contains(g.ret, domain)
         THEN [files |-> fs, result |-> "AlreadyExists", io |-> g.io]
         ELSE append_line(fs, list, domain, flt, g.io)

\* Only the first occurrence of domain is left out.
RECURSIVE retained_FirstOnly(_, _)
retained_FirstOnly(domains, domain) ==
    IF domains = <<>> THEN <<>>
    ELSE IF Head(domains) = domain THEN Tail(domains)
    ELSE <<Head(domains)>> \o retained_FirstOnly(Tail(domains), domain)

\* domains.into_iter().filter(|item| item != domain)
retained(domains, domain) == SelectSeq(domains, LAMBDA item : item # domain)

RECURSIVE WriteAll(_)
WriteAll(domains) ==
    IF domains = <<>> THEN <<>> ELSE writeln(Head(domains)) \o WriteAll(Tail(domains))

\* config.write_file(file, false), BufWriter::new(file), the writeln! loop and
\* the drop of the writer: the file is created or truncated, the lines are
\* collected in the writer's buffer (8 KiB, more than MaxBytes) and reach the
\* file when the writer is dropped; drop ignores the error of that flush.
rewrite(fs, list, domains, flt, io) ==
    LET f     == file(list)
        bytes == WriteAll(domains)
    IN  IF flt.open_write
        THEN [files |-> fs, result |-> StoreFailure, io |-> io \o <<"open_trunc_err">>]
        ELSE IF flt.cut \in 0..(Len(bytes) - 1)
        THEN [files  |-> [fs EXCEPT ![f] = FileOf(Prefix(bytes, flt.cut))],
              result |-> "Ok",
              io     |-> io \o <<"open_trunc", "flush_err">>]
        ELSE [files  |-> [fs EXCEPT ![f] = FileOf(bytes)],
              result |-> "Ok",
              io     |-> io \o <<"open_trunc", "write">>]

\* remove that reads the list before it validates the candidate.
remove_ValidatesLate(fs, list, domain, flt) ==
    LET g == get(fs, list, flt) IN
    IF g.result # "Ok"
    THEN [files |-> fs, result |-> g.result, io |-> g.io]
    ELSE IF ~accepts(list, domain)
    THEN [files |-> fs, result |-> "InvalidDomain", io |-> g.io]
    ELSE IF ~Contains(g.ret, domain)
    THEN [files |-> fs, result |-> "NotFound", io |-> g.io]
    ELSE rewrite(fs, list, retained(g.ret, domain), flt, g.io)

\* remove that opens (and so truncates) the file before it looks for the domain.
remove_OpensFirst(fs, list, domain, flt) ==
    IF ~accepts(list, domain)
    THEN [files |-> fs, result |-> "InvalidDomain", io |-> <<>>]
    ELSE LET g == get(fs, list, flt) IN
         IF g.result # "Ok"
         THEN [files |-> fs, result |-> g.result, io |-> g.io]
         ELSE IF ~Contains(g.ret, domain)
         THEN [files  |-> [fs EXCEPT ![file(list)] = FileOf(<<>>)],
               result |-> "NotFound",
               io     |-> g.io \o <<"open_trunc">>]
         ELSE rewrite(fs, list, retained(g.ret, domain), flt, g.io)

\* List::remove
remove(fs, list, domain, flt) ==
    IF ~accepts(list, domain)
    THEN [files |-> fs, result |-> "InvalidDomain", io |-> <<>>]
    ELSE LET g == get(fs, list, flt) IN
         IF g.result # "Ok"
         THEN [files |-> fs, result |-> g.result, io |-> g.io]
         ELSE IF ~Contains(g.ret, domain)
         THEN [files |-> fs, result |-> "NotFound", io |-> g.io]
         ELSE rewrite(fs, list, retained(g.ret, domain), flt, g.io)

\* try_remove that passes NotFound on.
try_remove_KeepsNotFound(fs, list, domain, flt) == remove(fs, list, domain, flt)

\* try_remove that ignores every error.
try_remove_IgnoresAll(fs, list, domain, flt) ==
    [remove(fs, list, domain, flt) EXCEPT !.result = "Ok"]

\* List::try_remove
try_remove(fs, list, domain, flt) ==
    LET r == remove(fs, list, domain, flt) IN
    IF r.result = "NotFound" THEN [r EXCEPT !.result = "Ok"] ELSE r

-----------------------------------------------------------------------------
(* Delete endpoints (delete_list.rs).  The daemon is told of a change by    *)
(* reload_gravity (whitelist, blacklist) or by the FTL command              *)
(* "recompile-regex", whose answer is read up to the end-of-message marker. *)
(* ack is what the daemon does with the notification: "ok", "connect" (the  *)
(* command cannot be sent) or "eom" (no end-of-message comes back).         *)

Acks == {"ok", "connect", "eom"}

\* The error of a notification that failed.
NotifyFailure == "NotifyError"

\* dns::common::reload_gravity(file, config)
reload_gravity(pfile, ack) ==
    IF ack = "ok"
    THEN [result |-> "Ok", io |-> <<"reload_gravity " \o pfile>>]
    ELSE [result |-> NotifyFailure, io |-> <<"reload_gravity " \o pfile \o " failed">>]

\* ftl.connect("recompile-regex")?.expect_eom()
recompile_regex(ack) ==
    IF ack = "connect"
    THEN [result |-> NotifyFailure, io |-> <<"recompile-regex failed">>]
    ELSE IF ack = "eom"
    THEN [result |-> NotifyFailure, io |-> <<"recompile-regex", "expect_eom failed">>]
    ELSE [result |-> "Ok", io |-> <<"recompile-regex", "expect_eom">>]

\* The handler: remove(..)?; notify?; util::reply_success()
then_notify(r, n) ==
    IF r.result # "Ok"
    THEN r
    ELSE [files |-> r.files, result |-> n.result, io |-> r.io \o n.io]

\* A handler that notifies the daemon whatever remove returned.
delete_whitelist_AlwaysNotifies(fs, domain, flt, ack) ==
    LET r == remove(fs, "White", domain, flt)
        n == reload_gravity("Whitelist", ack)
    IN  [files  |-> r.files,
         result |-> IF r.result # "Ok" THEN r.result ELSE n.result,
         io     |-> r.io \o n.io]

\* delete_whitelist
delete_whitelist(fs, domain, flt, ack) ==
    then_notify(remove(fs, "White", domain, flt), reload_gravity("Whitelist", ack))

\* delete_blacklist
delete_blacklist(fs, domain, flt, ack) ==
    then_notify(remove(fs, "Black", domain, flt), reload_gravity("Blacklist", ack))

\* A handler that drops the result of the notification.
delete_regexlist_IgnoresNotify(fs, domain, flt, ack) ==
    LET r == remove(fs, "Regex", domain, flt) IN
    IF r.result # "Ok"
    THEN r
    ELSE [files |-> r.files, result |-> "Ok", io |-> r.io \o recompile_regex(ack).io]

\* delete_regexlist
delete_regexlist(fs, domain, flt, ack) ==
    then_notify(remove(fs, "Regex", domain, flt), recompile_regex(ack))

-----------------------------------------------------------------------------
(* The state machine *)

\* A list file as §6 of the specification describes it and as every
\* writeln! of the program leaves it: lines, each newline-terminated.
\* Its lines may be empty or repeated: other programs write the file too.
\* Requests that the server may be handling at the same time.
Procs == {1, 2}

\* A request that has not called a List method yet.
Idle ==
    [pc |-> "idle", op |-> "none", list |-> "White", domain |-> <<>>,
     domains |-> <<>>, ret |-> <<>>, result |-> "Ok"]

FilesUpTo(n) ==
    {Missing} \cup
    {FileOf(s) : s \in {t \in SeqsUpTo(Chars, n) : t = <<>> \/ t[Len(t)] = LF}}

\* No call has returned since the caller last looked.
NoCall(fs) ==
    [op |-> "none", list |-> "White", domain |-> <<>>, result |-> "Ok",
     ret |-> <<>>, io |-> <<>>, before |-> fs]

Init ==
    /\ \E w \in FilesUpTo(MaxBytes) :
       \E b \in FilesUpTo(MaxBytes - Len(w.data)) :
       \E r \in FilesUpTo(MaxBytes - Len(w.data) - Len(b.data)) :
            files = [f \in PiholeFiles |->
                        CASE f = "Whitelist" -> w
                          [] f = "Blacklist" -> b
                          [] f = "Regexlist" -> r]
    /\ last = NoCall(files)
    /\ faulty = FALSE
    /\ calls = [p \in Procs |-> Idle]

\* The fault changed what the call did.
Met(out, clean) == faulty' = (faulty \/ out # clean)

Returned(op, list, domain, out, ret) ==
    [op |-> op, list |-> list, domain |-> domain, result |-> out.result,
     ret |-> ret, io |-> out.io, before |-> files]

CallGet(list, flt) ==
    LET g == get(files, list, flt) IN
    /\ last.op = "none"
    /\ Met(g, get(files, list, NoFault))
    /\ files' = files
    /\ last' = Returned("get", list, <<>>, g, g.ret)
    /\ UNCHANGED calls

CallAdd(list, domain, flt) ==
    LET r == add(files, list, domain, flt) IN
    /\ last.op = "none"
    /\ Met(r, add(files, list, domain, NoFault))
    /\ TotalBytes(r.files) <= MaxBytes
    /\ files' = r.files
    /\ last' = Returned("add", list, domain, r, <<>>)
    /\ UNCHANGED calls

CallRemove(list, domain, flt) ==
    LET r == remove(files, list, domain, flt) IN
    /\ last.op = "none"
    /\ Met(r, remove(files, list, domain, NoFault))
    /\ files' = r.files
    /\ last' = Returned("remove", list, domain, r, <<>>)
    /\ UNCHANGED calls

CallTryRemove(list, domain, flt) ==
    LET r == try_remove(files, list, domain, flt) IN
    /\ last.op = "none"
    /\ Met(r, try_remove(files, list, domain, NoFault))
    /\ files' = r.files
    /\ last' = Returned("try_remove", list, domain, r, <<>>)
    /\ UNCHANGED calls

CallDeleteWhitelist(domain, flt, ack) ==
    LET r == delete_whitelist(files, domain, flt, ack) IN
    /\ last.op = "none"
    /\ Met(r, delete_whitelist(files, domain, NoFault, "ok"))
    /\ files' = r.files
    /\ last' = Returned("delete", "White", domain, r, <<>>)
    /\ UNCHANGED calls

CallDeleteBlacklist(domain, flt, ack) ==
    LET r == delete_blacklist(files, domain, flt, ack) IN
    /\ last.op = "none"
    /\ Met(r, delete_blacklist(files, domain, NoFault, "ok"))
    /\ files' = r.files
    /\ last' = Returned("delete", "Black", domain, r, <<>>)
    /\ UNCHANGED calls

CallDeleteRegexlist(domain, flt, ack) ==
    LET r == delete_regexlist(files, domain, flt, ack) IN
    /\ last.op = "none"
    /\ Met(r, delete_regexlist(files, domain, NoFault, "ok"))
    /\ files' = r.files
    /\ last' = Returned("delete", "Regex", domain, r, <<>>)
    /\ UNCHANGED calls

\* The caller has taken the result of its call and goes on to the next one.
Continue ==
    /\ last.op # "none"
    /\ last' = NoCall(files)
    /\ UNCHANGED <<files, faulty>>
    /\ UNCHANGED calls

\* The file system works: a file is there or it is not, nothing else fails.
Next ==
    \/ \E list \in List : CallGet(list, NoFault)
    \/ \E list \in List, domain \in Candidates : CallAdd(list, domain, NoFault)
    \/ \E list \in List, domain \in Candidates : CallRemove(list, domain, NoFault)
    \/ \E list \in List, domain \in Candidates : CallTryRemove(list, domain, NoFault)
    \/ \E domain \in Candidates : CallDeleteWhitelist(domain, NoFault, "ok")
    \/ \E domain \in Candidates : CallDeleteBlacklist(domain, NoFault, "ok")
    \/ \E domain \in Candidates : CallDeleteRegexlist(domain, NoFault, "ok")
    \/ Continue

Spec == Init /\ [][Next]_vars

\* The file system may fail.
\* One run meets at most one fault.
FaultsNow == IF faulty THEN {NoFault} ELSE Faults

\* The daemon may fail: a fault of the file system, or one of the daemon.
NotifyNow ==
    IF faulty
    THEN {<<NoFault, "ok">>}
    ELSE {<<flt, "ok">> : flt \in Faults} \cup {<<NoFault, ack>> : ack \in Acks}

NextFault ==
    \/ \E list \in List, flt \in FaultsNow : CallGet(list, flt)
    \/ \E list \in List, domain \in Candidates, flt \in FaultsNow : CallAdd(list, domain, flt)
    \/ \E list \in List, domain \in Candidates, flt \in FaultsNow : CallRemove(list, domain, flt)
    \/ \E list \in List, domain \in Candidates, flt \in FaultsNow : CallTryRemove(list, domain, flt)
    \/ \E domain \in Candidates, n \in NotifyNow : CallDeleteWhitelist(domain, n[1], n[2])
    \/ \E domain \in Candidates, n \in NotifyNow : CallDeleteBlacklist(domain, n[1], n[2])
    \/ \E domain \in Candidates, n \in NotifyNow : CallDeleteRegexlist(domain, n[1], n[2])
    \/ Continue

SpecFault == Init /\ [][NextFault]_vars

-----------------------------------------------------------------------------
(* Requests handled at the same time.  No lock surrounds a List method, so  *)
(* the steps of two calls interleave at their system calls: reading the     *)
(* file, the append of add, and in remove the truncating open and the       *)
(* write of the retained entries when the BufWriter is dropped.             *)

\* Candidates of the concurrent requests.
ConcCandidates == {d \in Candidates : Len(d) = 1}

ConcOps == {"get", "add", "remove"}

\* A truncating open that leaves the bytes of the file where they are.
open_truncate_KeepsData(fs, list) ==
    [fs EXCEPT ![file(list)] = FileOf(fs[file(list)].data)]

\* write_file(self.file(), false): open for writing, create or truncate
open_truncate(fs, list) ==
    [fs EXCEPT ![file(list)] = FileOf(<<>>)]

\* The BufWriter writes its buffer through the descriptor opened by
\* write_file(.., false), whose offset is 0: the bytes replace the first
\* bytes of the file, whatever other requests have put there meanwhile.
write_at_start(fs, list, bytes) ==
    LET old == fs[file(list)].data IN
    [fs EXCEPT ![file(list)] =
        FileOf(IF Len(old) > Len(bytes)
               THEN bytes \o SubSeq(old, Len(bytes) + 1, Len(old))
               ELSE bytes)]

\* A write through a descriptor opened for appending lands at the end.
write_at_end(fs, list, bytes) ==
    [fs EXCEPT ![file(list)] = FileOf(fs[file(list)].data \o bytes)]

Done(c, result) == [c EXCEPT !.pc = "done", !.result = result]

\* One list file has content when the requests arrive.
InitConc ==
    /\ \E list \in List, f \in FilesUpTo(MaxBytes) :
            files = [g \in PiholeFiles |-> IF g = file(list) THEN f ELSE Missing]
    /\ last = NoCall(files)
    /\ faulty = FALSE
    /\ calls = [p \in Procs |-> Idle]

\* A request calls get, add or remove; add and remove check the candidate.
Begin(p, op, list, domain) ==
    /\ calls[p].pc = "idle"
    /\ \A q \in Procs : q < p => calls[q].pc # "idle"
    /\ calls' = [calls EXCEPT ![p] =
          LET c == [Idle EXCEPT !.op = op, !.list = list, !.domain = domain] IN
          IF op # "get" /\ ~accepts(list, domain)
          THEN Done(c, "InvalidDomain")
          ELSE [c EXCEPT !.pc = "read"]]
    /\ UNCHANGED <<files, last, faulty>>

\* self.get(config): the list as the file holds it now.
ReadList(p) ==
    LET c == calls[p]
        domains == get(files, c.list, NoFault).ret
    IN  /\ c.pc = "read"
        /\ calls' = [calls EXCEPT ![p] =
              CASE c.op = "get" -> Done([c EXCEPT !.ret = domains], "Ok")
                [] c.op = "add" ->
                     IF Contains(domains, c.domain)
                     THEN Done(c, "AlreadyExists")
                     ELSE [c EXCEPT !.pc = "append", !.domains = domains]
                [] c.op = "remove" ->
                     IF ~Contains(domains, c.domain)
                     THEN Done(c, "NotFound")
                     ELSE [c EXCEPT !.pc = "truncate", !.domains = domains]]
        /\ UNCHANGED <<files, last, faulty>>

\* add: write_file(.., true) and writeln!(file, "{}", domain)
AppendEntry(p) ==
    LET c == calls[p] IN
    /\ c.pc = "append"
    /\ files' = write_at_end(files, c.list, writeln(c.domain))
    /\ calls' = [calls EXCEPT ![p] = Done(c, "Ok")]
    /\ UNCHANGED <<last, faulty>>

\* remove: write_file(.., false)
Truncate(p) ==
    LET c == calls[p] IN
    /\ c.pc = "truncate"
    /\ files' = open_truncate(files, c.list)
    /\ calls' = [calls EXCEPT ![p].pc = "flush"]
    /\ UNCHANGED <<last, faulty>>

\* remove: the retained entries reach the file when the BufWriter is dropped.
Flush(p) ==
    LET c == calls[p] IN
    /\ c.pc = "flush"
    /\ files' = write_at_start(files, c.list, WriteAll(retained(c.domains, c.domain)))
    /\ calls' = [calls EXCEPT ![p] = Done(c, "Ok")]
    /\ UNCHANGED <<last, faulty>>

NextConc ==
    \/ \E p \in Procs, op \in ConcOps, list \in List, domain \in ConcCandidates :
            Begin(p, op, list, domain)
    \/ \E p \in Procs : ReadList(p)
    \/ \E p \in Procs : AppendEntry(p)
    \/ \E p \in Procs : Truncate(p)
    \/ \E p \in Procs : Flush(p)

SpecConc == InitConc /\ [][NextConc]_vars

-----------------------------------------------------------------------------
(* Properties.  `last` is the call that has just returned, last.before the  *)
(* files it started from; a call that follows with no other operation in    *)
(* between is the operation applied to the present files.                   *)

Mutators == {"add", "remove", "try_remove"}

\* The sequence get() returns on the files fs when the file system works.
Entries(fs, list) == get(fs, list, NoFault).ret

\* The lines the file of the list holds.
FileLines(fs, list) == lines(fs[file(list)].data)

ReadError(io) == \E i \in 1..Len(io) : io[i] \in {"open_read_err", "line_err"}

\* C1: for every list and every candidate d the validator accepts: after
\* add(d) has returned success, or AlreadyExists on a list without duplicate
\* entries (C3), the get() that follows returns d exactly once.
C1_AddThenGet ==
    (/\ last.op = "add"
     /\ accepts(last.list, last.domain)
     /\ \/ last.result = "Ok"
        \/ /\ last.result = "AlreadyExists"
           /\ NoDuplicates(Entries(last.before, last.list)))
    => LET g == get(files, last.list, NoFault) IN
       g.result = "Ok" /\ Count(g.ret, last.domain) = 1

\* add(d) succeeded on a list that held other entries; get() returns them and d.
C1_Witness ==
    /\ last.op = "add"
    /\ last.result = "Ok"
    /\ Entries(last.before, last.list) # <<>>
    /\ Count(Entries(files, last.list), last.domain) = 1

\* C2: after remove(d) returned success, the get() that follows does not
\* return d, and no line of the file is d: every occurrence is gone.
C2_RemoveThenGet ==
    (last.op = "remove" /\ last.result = "Ok")
    => LET g == get(files, last.list, NoFault) IN
       /\ g.result = "Ok"
       /\ ~Contains(g.ret, last.domain)
       /\ Count(FileLines(files, last.list), last.domain) = 0

\* remove(d) succeeded on a list that held d more than once.
C2_Witness ==
    /\ last.op = "remove"
    /\ last.result = "Ok"
    /\ Count(Entries(last.before, last.list), last.domain) >= 2
    /\ ~Contains(Entries(files, last.list), last.domain)

\* C3: a list without duplicate entries has none after add, remove or
\* try_remove, whatever the call returned.
C3_Uniqueness ==
    last.op \in Mutators
    => \A list \in List :
          NoDuplicates(Entries(last.before, list)) => NoDuplicates(Entries(files, list))

\* add succeeded on a list of distinct entries, which now holds two of them.
C3_Witness ==
    /\ last.op = "add"
    /\ last.result = "Ok"
    /\ NoDuplicates(Entries(last.before, last.list))
    /\ Len(Entries(files, last.list)) >= 2

\* C4: add, remove and try_remove of a candidate the validator rejects fail
\* with InvalidDomain, perform no file I/O at all, and leave every file as it
\* was (a missing file stays missing).
C4_ValidationFirst ==
    (last.op \in Mutators /\ ~accepts(last.list, last.domain))
    => /\ last.result = "InvalidDomain"
       /\ last.io = <<>>
       /\ files = last.before

\* remove of a rejected candidate that is a line of the file.
C4_Witness ==
    /\ last.op = "remove"
    /\ ~accepts(last.list, last.domain)
    /\ Contains(FileLines(last.before, last.list), last.domain)
    /\ last.result = "InvalidDomain"

\* C5: add of an accepted candidate that the list holds fails with
\* AlreadyExists and leaves the files unchanged; add of one it does not hold
\* succeeds, the same add called again fails with AlreadyExists and changes
\* nothing, and the file holds the line d exactly once.
C5_DuplicateGuard ==
    (last.op = "add" /\ accepts(last.list, last.domain))
    => IF Contains(Entries(last.before, last.list), last.domain)
       THEN last.result = "AlreadyExists" /\ files = last.before
       ELSE LET again == add(files, last.list, last.domain, NoFault) IN
            /\ last.result = "Ok"
            /\ again.result = "AlreadyExists"
            /\ again.files = files
            /\ Count(FileLines(files, last.list), last.domain) = 1

\* The first add(d) succeeded on a list that held another entry.
C5_Witness ==
    /\ last.op = "add"
    /\ last.result = "Ok"
    /\ Entries(last.before, last.list) # <<>>
    /\ add(files, last.list, last.domain, NoFault).result = "AlreadyExists"

\* C6: remove of an accepted candidate that the list does not hold fails with
\* NotFound, does not open the file for writing and leaves the files as they
\* were; a missing file is not created.
C6_RemoveAbsent ==
    (/\ last.op = "remove"
     /\ accepts(last.list, last.domain)
     /\ ~Contains(Entries(last.before, last.list), last.domain))
    => /\ last.result = "NotFound"
       /\ \A i \in 1..Len(last.io) : last.io[i] \notin {"open_trunc", "open_trunc_err"}
       /\ files = last.before

\* remove on a list whose file is missing.
C6_Witness ==
    /\ last.op = "remove"
    /\ last.result = "NotFound"
    /\ ~last.before[file(last.list)].exists
    /\ ~files[file(last.list)].exists

\* C7 as stated: try_remove(x) called twice in a row fails neither time,
\* whatever x is.
C7_NeverFails ==
    last.op = "try_remove"
    => /\ last.result = "Ok"
       /\ try_remove(files, last.list, last.domain, NoFault).result = "Ok"

\* C7: try_remove(x) called twice in a row fails neither time when the
\* validator accepts x, whether the list held x or not; when the validator
\* rejects x both calls fail with InvalidDomain.
C7_Idempotent ==
    last.op = "try_remove"
    => LET again == try_remove(files, last.list, last.domain, NoFault) IN
       IF accepts(last.list, last.domain)
       THEN last.result = "Ok" /\ again.result = "Ok" /\ again.files = files
       ELSE last.result = "InvalidDomain" /\ again.result = "InvalidDomain"

\* The first try_remove(x) removed x; the second finds it absent.
C7_Witness ==
    /\ last.op = "try_remove"
    /\ Contains(Entries(last.before, last.list), last.domain)
    /\ last.result = "Ok"
    /\ remove(files, last.list, last.domain, NoFault).result = "NotFound"

\* C8: try_remove does what remove does on the same files under the same
\* fault: the same I/O, the same files afterwards, success where remove
\* returns success or NotFound, and remove's error otherwise.
C8_TryRemoveIsRemove ==
    last.op = "try_remove"
    => \E flt \in Faults :
          LET r == remove(last.before, last.list, last.domain, flt) IN
          /\ files = r.files
          /\ last.io = r.io
          /\ last.result = IF r.result \in {"Ok", "NotFound"} THEN "Ok" ELSE r.result

\* try_remove passed on a store failure of remove.
C8_Witness ==
    /\ last.op = "try_remove"
    /\ last.result = "IoError"
    /\ accepts(last.list, last.domain)
    /\ files = last.before

\* C9: get() on a list whose file is missing returns the empty sequence, not
\* an error, and does not create the file; add of an accepted candidate on a
\* missing file succeeds and creates the file, holding that one line.
C9_MissingFile ==
    /\ (last.op = "get" /\ ~last.before[file(last.list)].exists)
       => /\ last.result = "Ok"
          /\ last.ret = <<>>
          /\ files = last.before
    /\ (/\ last.op = "add"
        /\ ~last.before[file(last.list)].exists
        /\ accepts(last.list, last.domain))
       => /\ last.result = "Ok"
          /\ files[file(last.list)] = FileOf(writeln(last.domain))

\* add created the file that was missing; get() returns the one entry.
C9_Witness ==
    /\ last.op = "add"
    /\ ~last.before[file(last.list)].exists
    /\ files[file(last.list)].exists
    /\ Entries(last.before, last.list) = <<>>
    /\ Entries(files, last.list) = <<last.domain>>

\* C10 as stated: an I/O error other than NotFound met while the list is
\* read, at the open or at any line, is returned as a store failure by get,
\* add and remove, and the files are left as they were.
C10_ReadErrorsPropagate ==
    (last.op # "none" /\ ReadError(last.io))
    => last.result = "IoError" /\ files = last.before


\* What remove(d) is to leave in the file: the entries read at the start of
\* the call that are not d, in their order, each followed by a newline.
Filtered(fs, list, domain) ==
    FileOf(WriteAll(SelectSeq(Entries(fs, list), LAMBDA e : e # domain)))

WriteError(io) ==
    \E i \in 1..Len(io) : io[i] \in {"open_trunc_err", "write_err", "flush_err"}

\* C11 as stated: when a step of remove fails, an I/O error while the
\* remaining entries are written included, the file holds either all of its
\* content from before the call or all of the filtered content.
C11_AllOrNothing ==
    (/\ last.op = "remove"
     /\ ~ReadError(last.io)
     /\ last.result # "Ok" \/ WriteError(last.io))
    => \/ files[file(last.list)] = last.before[file(last.list)]
       \/ files[file(last.list)] = Filtered(last.before, last.list, last.domain)


\* The one file that belongs to each list kind (specification, section 3).
BackingFile ==
    [list \in List |->
        CASE list = "White" -> "Whitelist"
          [] list = "Black" -> "Blacklist"
          [] list = "Regex" -> "Regexlist"]

\* The files with only the file of the list kept; the other two are missing.
Alone(fs, list) ==
    [f \in PiholeFiles |-> IF f = BackingFile[list] THEN fs[f] ELSE Missing]

\* What the call of `last` does, under the fault flt, on the files fs.
Outcome(fs, flt) ==
    CASE last.op = "get" ->
           LET g == get(fs, last.list, flt) IN
           [result |-> g.result, ret |-> g.ret, io |-> g.io,
            data |-> fs[BackingFile[last.list]]]
      [] last.op = "add" ->
           LET r == add(fs, last.list, last.domain, flt) IN
           [result |-> r.result, ret |-> <<>>, io |-> r.io,
            data |-> r.files[BackingFile[last.list]]]
      [] last.op = "remove" ->
           LET r == remove(fs, last.list, last.domain, flt) IN
           [result |-> r.result, ret |-> <<>>, io |-> r.io,
            data |-> r.files[BackingFile[last.list]]]
      [] last.op = "try_remove" ->
           LET r == try_remove(fs, last.list, last.domain, flt) IN
           [result |-> r.result, ret |-> <<>>, io |-> r.io,
            data |-> r.files[BackingFile[last.list]]]

\* C12: get, add, remove and try_remove on one list kind leave the files of
\* the other two kinds as they were, whatever the call returns, and what
\* they return and write is what they would with the other two files
\* missing: they read the file of their own kind only.
C12_Isolation ==
    last.op \in Mutators \cup {"get"}
    => /\ \A f \in PiholeFiles \ {BackingFile[last.list]} : files[f] = last.before[f]
       /\ \E flt \in Faults :
             Outcome(Alone(last.before, last.list), flt)
               = [result |-> last.result, ret |-> last.ret, io |-> last.io,
                  data |-> files[BackingFile[last.list]]]

\* remove rewrote the regex list while the blacklist, which holds the same
\* entry, and the whitelist were there.
C12_Witness ==
    /\ last.op = "remove"
    /\ last.result = "Ok"
    /\ last.list = "Regex"
    /\ files["Regexlist"] # last.before["Regexlist"]
    /\ Contains(lines(files["Blacklist"].data), last.domain)
    /\ files["Whitelist"].exists


\* C16 as stated: whenever remove(d) returns success, the file holds exactly
\* the entries read at the start of the call that are not d, in their order,
\* each followed by a newline, every line persisted: no write or flush error
\* is swallowed.  Removing the only entry leaves a file of zero bytes.
C16_RemovePersists ==
    (last.op = "remove" /\ last.result = "Ok" /\ ~ReadError(last.io))
    => /\ ~WriteError(last.io)
       /\ files[file(last.list)] = Filtered(last.before, last.list, last.domain)


\* C17: a successful add(d) changes the file only by appending the bytes of
\* d and one newline: the content from before is a prefix, left as it was,
\* and get() returns the entries it returned before, in their order,
\* followed by d.
C17_AddAppends ==
    (last.op = "add" /\ last.result = "Ok")
    => LET f == file(last.list) IN
       /\ files[f].exists
       /\ files[f].data = last.before[f].data \o last.domain \o <<LF>>
       /\ \A g \in PiholeFiles \ {f} : files[g] = last.before[g]
       /\ Entries(files, last.list) = Append(Entries(last.before, last.list), last.domain)

\* add succeeded on a file that held an entry.
C17_Witness ==
    /\ last.op = "add"
    /\ last.result = "Ok"
    /\ Len(Entries(last.before, last.list)) >= 1
    /\ Len(files[file(last.list)].data) > Len(last.before[file(last.list)].data)


\* The bytes of a file without its empty lines: every newline that starts
\* the file or follows a newline is left out.
RECURSIVE SqueezeFrom(_, _)
SqueezeFrom(data, i) ==
    IF i > Len(data) THEN <<>>
    ELSE IF data[i] = LF /\ (i = 1 \/ data[i - 1] = LF)
         THEN SqueezeFrom(data, i + 1)
         ELSE <<data[i]>> \o SqueezeFrom(data, i + 1)

RECURSIVE JoinLines(_)
JoinLines(ls) == IF ls = <<>> THEN <<>> ELSE Head(ls) \o <<LF>> \o JoinLines(Tail(ls))

\* C18: get reads only: it returns the non-empty lines of the file in file
\* order, all of them, repeated lines and lines no validator accepts
\* included, never an empty entry, and it creates or changes no file.
C18_GetIsPureRead ==
    last.op = "get"
    => /\ files = last.before
       /\ last.result = "Ok"
       /\ \A i \in 1..Len(last.ret) : last.ret[i] # <<>> /\ LF \notin Range(last.ret[i])
       /\ JoinLines(last.ret) = SqueezeFrom(files[file(last.list)].data, 1)

\* get returned a line that the validator of the list rejects, from a file
\* that holds an empty line as well.
C18_Witness ==
    /\ last.op = "get"
    /\ Len(last.ret) < Len(FileLines(files, last.list))
    /\ \E i \in 1..Len(last.ret) : ~accepts(last.list, last.ret[i])


-----------------------------------------------------------------------------
(* Delete endpoints *)

\* The notifications a delete request for the list may make, and how they end.
NotifySent(list) ==
    CASE list = "White" -> {"reload_gravity Whitelist", "reload_gravity Whitelist failed"}
      [] list = "Black" -> {"reload_gravity Blacklist", "reload_gravity Blacklist failed"}
      [] list = "Regex" -> {"recompile-regex", "recompile-regex failed"}
NotifyAwaited == {"expect_eom", "expect_eom failed"}
NotifyEvents ==
    UNION {NotifySent(list) : list \in List} \cup NotifyAwaited
NotifyFailed(io) ==
    \E i \in 1..Len(io) :
        io[i] \in {"reload_gravity Whitelist failed", "reload_gravity Blacklist failed",
                   "recompile-regex failed", "expect_eom failed"}
\* The events of the log that are not notifications: the file I/O of remove.
FileIO(io) == SelectSeq(io, LAMBDA e : e \notin NotifyEvents)
Notifications(io) == SelectSeq(io, LAMBDA e : e \in NotifyEvents)

\* C13: a delete request runs remove first; when remove succeeded it sends
\* exactly one notification, of the kind of its list (the regex one awaited
\* up to the end-of-message), after the file was rewritten, and replies
\* success only when the notification succeeded; when remove failed there is
\* no notification and the reply is remove's error.
C13_MutateThenNotify ==
    last.op = "delete"
    => \E flt \in Faults :
         LET r == remove(last.before, last.list, last.domain, flt)
             n == Notifications(last.io)
         IN  /\ files = r.files
             /\ last.io = r.io \o n
             /\ r.result # "Ok" => n = <<>> /\ last.result = r.result
             /\ r.result = "Ok" =>
                  /\ Len(n) >= 1
                  /\ n[1] \in NotifySent(last.list)
                  /\ Len(SelectSeq(n, LAMBDA e : e \in NotifyEvents \ NotifyAwaited)) = 1
                  /\ (last.list = "Regex" /\ n[1] = "recompile-regex")
                        => Len(n) = 2 /\ n[2] \in NotifyAwaited
                  /\ ~(last.list = "Regex" /\ n[1] = "recompile-regex") => Len(n) = 1
                  /\ last.result = "Ok" <=> ~NotifyFailed(last.io)

C13_Witness ==
    /\ last.op = "delete"
    /\ last.list = "Regex"
    /\ last.result = "Ok"
    /\ last.io = <<"open_read", "open_trunc", "write", "recompile-regex", "expect_eom">>
    /\ files["Regexlist"] # last.before["Regexlist"]

\* C14: when the notification fails after remove succeeded, the request
\* replies an error, the entry stays removed from the file, and the error is
\* none of those replied when the file was left as it was.
C14_NotifyFailureSurfaced ==
    last.op = "delete"
    => /\ NotifyFailed(last.io)
          => /\ last.result = NotifyFailure
             /\ ~Contains(Entries(files, last.list), last.domain)
             /\ Contains(Entries(last.before, last.list), last.domain)
             /\ files[file(last.list)] = Filtered(last.before, last.list, last.domain)
       /\ last.result = NotifyFailure => NotifyFailed(last.io)
       /\ (last.result # "Ok" /\ files = last.before) => last.result # NotifyFailure

C14_Witness ==
    /\ last.op = "delete"
    /\ last.result = NotifyFailure
    /\ last.io[Len(last.io)] = "expect_eom failed"
    /\ files["Regexlist"].exists
    /\ files["Regexlist"].data # <<>>
    /\ files # last.before


-----------------------------------------------------------------------------
(* Requests handled at the same time *)

\* Request p has returned from a call of op on list with result.
Finished(p, op, result) ==
    calls[p].pc = "done" /\ calls[p].op = op /\ calls[p].result = result

\* Two removes of different entries of one list have both returned success
\* and the entry that q removed is still in the file.
LostUpdate(p, q) ==
    /\ p # q
    /\ Finished(p, "remove", "Ok")
    /\ Finished(q, "remove", "Ok")
    /\ calls[p].list = calls[q].list
    /\ calls[p].domain # calls[q].domain
    /\ Contains(Entries(files, calls[q].list), calls[q].domain)

\* C15: two removes of different entries of the same list can both succeed
\* while the file still holds one of the two entries; whenever that happens
\* both had read the list as it was before either rewrote it, and the one
\* that wrote last put the other's entry back from its own read.
C15_LostUpdate ==
    \A p \in Procs, q \in Procs :
        LostUpdate(p, q)
        => /\ Contains(calls[p].domains, calls[q].domain)
           /\ calls[p].domains = Entries(last.before, calls[p].list)
           /\ calls[q].domains = Entries(last.before, calls[q].list)

C15_Witness ==
    \E p \in Procs, q \in Procs :
        /\ LostUpdate(p, q)
        /\ Contains(Entries(last.before, calls[p].list), calls[p].domain)
        /\ Contains(Entries(last.before, calls[p].list), calls[q].domain)
        /\ ~Contains(Entries(files, calls[p].list), calls[p].domain)

\* C19: two adds of the same valid candidate to the same list, in every
\* interleaving: at most one returns success and the list holds the
\* candidate exactly once when both have returned.
C19_DuplicateGuard ==
    \A p \in Procs, q \in Procs :
        (/\ p # q
         /\ calls[p].pc = "done" /\ calls[p].op = "add"
         /\ calls[q].pc = "done" /\ calls[q].op = "add"
         /\ calls[p].list = calls[q].list
         /\ calls[p].domain = calls[q].domain
         /\ accepts(calls[p].list, calls[p].domain)
         /\ Count(Entries(last.before, calls[p].list), calls[p].domain) <= 1)
        => /\ ~(calls[p].result = "Ok" /\ calls[q].result = "Ok")
           /\ Count(Entries(files, calls[p].list), calls[p].domain) = 1

\* C20: a get that runs at the same time as a remove on the same list
\* returns the whole list of before the remove or the whole list of after
\* it, never what the file holds between the truncation and the write.
C20_AtomicVisibility ==
    \A p \in Procs, q \in Procs :
        (/\ p # q
         /\ Finished(p, "get", "Ok")
         /\ calls[q].op = "remove"
         /\ calls[q].list = calls[p].list)
        => \/ calls[p].ret = Entries(last.before, calls[p].list)
           \/ calls[p].ret = retained(Entries(last.before, calls[p].list), calls[q].domain)

====
